---- MODULE Spec2Model ----
(***************************************************************************)
(* FT-Robo-Snap (src/ide/ft-robo-snap.js): the extension's composition     *)
(* with the Snap! Host.  Three parts are modelled:                         *)
(*   - monkeyPatchTranslation: the translation overlay protocol            *)
(*   - blockdefs / blocks / blockTemplates / initBlocks: the block registry*)
(*   - labelPart / ftlogo: the label part factory                          *)
(***************************************************************************)
EXTENDS Naturals, Sequences, FiniteSets, TLC

VARIABLES
    dict,               \* FTRoboSnap.dict: locale -> overlay dictionary
    SnapTranslatorDict, \* SnapTranslator.dict: locale -> the Host's live dictionary
    requests,           \* the language load requests, in the order the Host made them
    hiddenPrimitives,   \* StageMorph.prototype.hiddenPrimitives, as the set of its selectors
    SpriteMorphBlocks,  \* SpriteMorph.prototype.blocks: selector -> block spec
    SpriteMorphProto,   \* SpriteMorph.prototype: selector -> implementation
    StageMorphProto,    \* StageMorph.prototype: selector -> implementation
    initCalls,          \* calls of the wrapped SpriteMorph.prototype.initBlocks so far
    templates,          \* the latest call of a wrapped blockTemplates and what it returned
    labelspecs,         \* FTRoboSnap.labelspecs: token -> factory function or alias string
    ftlogo_costume,     \* var ftlogo_costume of the labelspecs closure
    img,                \* the load state of the image "ft.png"
    labelPart           \* the latest call of the wrapped labelPart and its outcome

tvars == <<dict, SnapTranslatorDict, requests>>

bvars == <<hiddenPrimitives, SpriteMorphBlocks, SpriteMorphProto, StageMorphProto,
           initCalls, templates>>

lvars == <<labelspecs, ftlogo_costume, img, labelPart>>

vars == <<tvars, bvars, lvars>>

(***************************************************************************)
(* Bounds of the model                                                     *)
(***************************************************************************)
MaxRequests == 2

MaxInitCalls == 2

(***************************************************************************)
(* Translation overlay                                                     *)
(***************************************************************************)
Locales == {"de", "fr"}

Keys == {"$ftrobo switch %ftroboInput is on?", "0 (off)"}

\* a key that holds nothing in a JavaScript object
Absent == "undefined"

\* a JavaScript object used as dictionary; defined = FALSE is the value undefined
Undefined == [defined |-> FALSE, entries |-> [k \in Keys |-> Absent]]

Object(e) == [defined |-> TRUE, entries |-> e]

\* Object.keys(o)
ObjectKeys(o) == {k \in Keys : o.entries[k] # Absent}

\* the overlay dictionaries a language file of the extension may have stored
\* in FTRoboSnap.dict (this.dict = {} holds none of them at construction)
OverlayOf(lang) ==
    IF lang = "de"
    THEN { Object([k \in Keys |-> IF k = "0 (off)" THEN Absent ELSE "Schalter %ftroboInput ist an?"]),
           Object([k \in Keys |-> IF k = "0 (off)" THEN "0 (aus)" ELSE "Schalter %ftroboInput ist an?"]) }
    ELSE { Undefined, Object([k \in Keys |-> Absent]) }

\* what /snap/lang-xx.js of the Host may store in SnapTranslator.dict[xx]
BaseDicts ==
    { Object([k \in Keys |-> Absent]),
      Object([k \in Keys |-> IF k = "0 (off)" THEN "0 (base)" ELSE Absent]),
      Object([k \in Keys |-> IF k = "0 (off)" THEN "0 (base)" ELSE "switch (base)"]) }

\* orig_src = '/snap/lang-' + lang + '.js'
orig_src(lang) == "/snap/lang-" \o lang \o ".js"

\* one entry of a request's event log
Ev(what, key) == <<what, key>>

\* a faulty variant of forEachKey: an entry the target already holds is kept
RECURSIVE forEachKeyKeep(_, _, _, _)
forEachKeyKeep(keys, src, target, log) ==
    IF keys = {} THEN <<target, log>>
    ELSE LET key == CHOOSE k \in keys : TRUE
         IN  forEachKeyKeep(keys \ {key}, src,
                            [target EXCEPT ![key] = IF @ = Absent THEN src[key] ELSE @],
                            Append(log, Ev("write", key)))

\* Object.keys(src_dict).forEach(function(key){ target_dict[key] = src_dict[key]; })
\* as the pair <<target entries, log of the writes>>
RECURSIVE forEachKey(_, _, _, _)
forEachKey(keys, src, target, log) ==
    IF keys = {} THEN <<target, log>>
    ELSE LET key == CHOOSE k \in keys : TRUE
         IN  forEachKey(keys \ {key}, src,
                        [target EXCEPT ![key] = src[key]],
                        Append(log, Ev("write", key)))

\* the Host asks for language lang: a script element whose onload is the Host's
\* completion callback and whose src is the extension's lang-xx.js
HostLoadLanguage(lang) ==
    /\ Len(requests) < MaxRequests
    /\ requests' = Append(requests,
            [ lang      |-> lang,
              onload    |-> "install_language_handler",
              patched   |-> FALSE,
              loadFired |-> FALSE,
              base      |-> "none",
              inHead    |-> FALSE,
              src       |-> "",
              log       |-> <<>> ])
    /\ UNCHANGED <<dict, SnapTranslatorDict, bvars, lvars>>

\* what monkeyPatchTranslation(script) makes of the request list
monkeyPatchTranslation(r) ==
    [ i \in 1..Len(requests) |->
        IF i = r
        THEN [ requests[i] EXCEPT
                 !.onload  = "undefined",      \* script.onload = undefined
                 !.patched = TRUE,
                 !.base    = "loading",        \* createElement, onload set, src set
                 !.inHead  = TRUE,             \* document.head.appendChild
                 !.src     = orig_src(requests[i].lang) ]
        ELSE [ requests[i] EXCEPT !.inHead = FALSE ] ]  \* removeChild(orig_translation)

\* the extension's lang-xx.js runs and calls FTRoboSnap.monkeyPatchTranslation(script)
MonkeyPatchTranslation(r) ==
    /\ r \in 1..Len(requests)
    /\ ~requests[r].patched
    /\ requests' = monkeyPatchTranslation(r)
    /\ UNCHANGED <<dict, SnapTranslatorDict, bvars, lvars>>

\* the load event of the intercepted script: it runs script.onload, if any
ScriptLoadEvent(r) ==
    /\ r \in 1..Len(requests)
    /\ requests[r].patched
    /\ ~requests[r].loadFired
    /\ requests' = [requests EXCEPT
            ![r].loadFired = TRUE,
            ![r].log = IF requests[r].onload = "undefined" THEN @
                       ELSE Append(@, Ev("notify", "")) ]
    /\ UNCHANGED <<dict, SnapTranslatorDict, bvars, lvars>>

\* the Host's base file /snap/lang-xx.js has been fetched and runs: it stores the
\* base dictionary of its language
BaseLoaded(r) ==
    /\ r \in 1..Len(requests)
    /\ requests[r].base = "loading"
    /\ \E b \in BaseDicts :
         SnapTranslatorDict' = [SnapTranslatorDict EXCEPT ![requests[r].lang] = b]
    /\ requests' = [requests EXCEPT ![r].base = "loaded",
                                    ![r].log = Append(@, Ev("base", ""))]
    /\ UNCHANGED <<dict, bvars, lvars>>

\* a faulty variant of onload: install_language_handler() is called before the keys are copied
onloadNotifyFirst(r) ==
    LET lang == requests[r].lang
        done == forEachKey(ObjectKeys(dict[lang]), dict[lang].entries,
                           SnapTranslatorDict[lang].entries,
                           Append(requests[r].log, Ev("notify", "")))
    IN  <<[SnapTranslatorDict EXCEPT ![lang] = [defined |-> TRUE, entries |-> done[1]]],
          done[2]>>

\* orig_translation.onload as <<SnapTranslator.dict afterwards, the request's log afterwards>>
onload(r) ==
    LET lang        == requests[r].lang
        target_dict == SnapTranslatorDict[lang]
        src_dict    == dict[lang]
        done        == forEachKey(ObjectKeys(src_dict), src_dict.entries,
                                  target_dict.entries, requests[r].log)
    IN  IF ~src_dict.defined
        THEN \* Object.keys(undefined) throws a TypeError
             <<SnapTranslatorDict, Append(requests[r].log, Ev("throw", ""))>>
        ELSE IF ~target_dict.defined /\ ObjectKeys(src_dict) # {}
        THEN \* undefined[key] = ... throws a TypeError
             <<SnapTranslatorDict, Append(requests[r].log, Ev("throw", ""))>>
        ELSE <<[SnapTranslatorDict EXCEPT ![lang] =
                    [defined |-> target_dict.defined, entries |-> done[1]]],
               Append(done[2], Ev("notify", ""))>>   \* install_language_handler()

\* the load event of the base script element
BaseOnload(r) ==
    /\ r \in 1..Len(requests)
    /\ requests[r].base = "loaded"
    /\ SnapTranslatorDict' = onload(r)[1]
    /\ requests' = [requests EXCEPT ![r].base = "handled", ![r].log = onload(r)[2]]
    /\ UNCHANGED <<dict, bvars, lvars>>

InitTranslation ==
    /\ dict \in {d \in [Locales -> UNION {OverlayOf(l) : l \in Locales}] :
                    \A l \in Locales : d[l] \in OverlayOf(l)}
    /\ SnapTranslatorDict = [l \in Locales |-> Undefined]
    /\ requests = <<>>

NextTranslation ==
    \/ \E lang \in Locales : HostLoadLanguage(lang)
    \/ \E r \in 1..MaxRequests : MonkeyPatchTranslation(r)
    \/ \E r \in 1..MaxRequests : ScriptLoadEvent(r)
    \/ \E r \in 1..MaxRequests : BaseLoaded(r)
    \/ \E r \in 1..MaxRequests : BaseOnload(r)

(***************************************************************************)
(* Block registry                                                          *)
(***************************************************************************)
\* FTRoboSnap.prototype.blockdefs; palette "" is a descriptor without palette,
\* defaults <<>> one without defaults, impl names the descriptor's function
blockdefs == <<
    [ id |-> "SetOutput", category |-> "motion", palette |-> "", type |-> "command",
      spec |-> "set %ftroboOutput to %ftroboOutputValue",
      defaults |-> <<"O1", "null">>, impl |-> "impl SetOutput" ],
    [ id |-> "SetMotor", category |-> "motion", palette |-> "", type |-> "command",
      spec |-> "run %ftroboMotorList at speed %ftroboMotorValue %br and stop after %ftroboSteps steps",
      defaults |-> <<>>, impl |-> "impl SetMotor" ],
    [ id |-> "IsMotorOn", category |-> "motion", palette |-> "", type |-> "predicate",
      spec |-> "motor %ftroboMotor is running?",
      defaults |-> <<"M1">>, impl |-> "impl IsMotorOn" ],
    [ id |-> "IsSwitchClosed", category |-> "sensing", palette |-> "", type |-> "predicate",
      spec |-> "switch %ftroboInput is on?",
      defaults |-> <<"I1">>, impl |-> "impl IsSwitchClosed" ],
    [ id |-> "CounterValue", category |-> "sensing", palette |-> "", type |-> "reporter",
      spec |-> "current value of %ftroboCounter",
      defaults |-> <<"C1">>, impl |-> "impl CounterValue" ],
    [ id |-> "InputValue", category |-> "sensing", palette |-> "", type |-> "reporter",
      spec |-> "current value of %ftroboInput",
      defaults |-> <<"I1">>, impl |-> "impl InputValue" ] >>

\* var selector = "ftrobo" + spec.id, where the implementations are bound
implSelector(id) == "ftrobo" \o id

\* blockdefs.map(function(spec) { <target>.prototype[selector] = spec.impl; })
RECURSIVE bindImpl(_, _)
bindImpl(idx, proto) ==
    IF idx > Len(blockdefs) THEN proto
    ELSE LET selector == implSelector(blockdefs[idx].id)
         IN  bindImpl(idx + 1,
                      [s \in DOMAIN proto \cup {selector} |->
                          IF s = selector THEN blockdefs[idx].impl ELSE proto[s]])

\* a faulty variant of renderSpec: the selector is the bare id
renderSpecBareId(def) ==
    [ selector |-> def.id,
      spec     |-> "$ftrobo " \o def.spec,
      category |-> def.category,
      defaults |-> def.defaults,
      type     |-> def.type ]

\* the render spec FTRoboSnap.prototype.blocks builds of a descriptor
renderSpec(def) ==
    [ selector |-> "ftrobo" \o def.id,
      spec     |-> "$ftrobo " \o def.spec,
      category |-> def.category,
      defaults |-> def.defaults,
      type     |-> def.type ]

\* the loop of FTRoboSnap.prototype.blocks from index idx on; acc is var blocks
RECURSIVE blocksFrom(_, _)
blocksFrom(idx, acc) ==
    IF idx > Len(blockdefs) THEN acc
    ELSE LET def     == blockdefs[idx]
             palette == IF def.palette # "" THEN def.palette ELSE def.category
             specs   == IF palette \in DOMAIN acc THEN acc[palette] ELSE <<>>
         IN  blocksFrom(idx + 1,
                        [p \in DOMAIN acc \cup {palette} |->
                            IF p = palette THEN Append(specs, renderSpec(def)) ELSE acc[p]])

\* FTRoboSnap.blocks: palette -> the render specs of the palette
blocks == blocksFrom(1, [p \in {} |-> <<>>])

\* the entries of a block list: a block, a marker string such as "=" or "-", or null
Block(selector) == [kind |-> "block", selector |-> selector, isTemplate |-> TRUE]

Marker(m) == [kind |-> "marker", selector |-> m, isTemplate |-> FALSE]

Null == [kind |-> "null", selector |-> "", isTemplate |-> FALSE]

\* a faulty variant of blockFromInfo: the Host's hidden primitives are not looked at
blockFromInfoShown(info, hidden) == Block(info.selector)

\* blockFromInfo(info) under the Host's hidden primitives
blockFromInfo(info, hidden) ==
    IF info.selector \in hidden THEN Null
    ELSE Block(info.selector)   \* SpriteMorph.prototype.blockFromInfo; isTemplate = true

\* my_blocks.map(blockFromInfo)
mapBlockFromInfo(my_blocks, hidden) ==
    [i \in 1..Len(my_blocks) |-> blockFromInfo(my_blocks[i], hidden)]

\* a faulty variant of patchedBlockTemplates: the separator is pushed for every category
patchedBlockTemplatesAlwaysSeparator(category, unpatched, hidden) ==
    IF category \in DOMAIN blocks
    THEN Append(unpatched, Marker("=")) \o mapBlockFromInfo(blocks[category], hidden)
    ELSE Append(unpatched, Marker("="))

\* the function monkeyPatchBlockTemplates(target) returns, applied to category,
\* given the list the unpatched blockTemplates of the Host returned
patchedBlockTemplates(category, unpatched, hidden) ==
    IF category \in DOMAIN blocks
    THEN Append(unpatched, Marker("=")) \o mapBlockFromInfo(blocks[category], hidden)
    ELSE unpatched

\* the palettes the Host builds, the Host's selectors and its own block table
Categories == {"motion", "sensing", "looks"}

Targets == {"SpriteMorph", "StageMorph"}

HostSelectors == {"forward", "doAsk"}

HostBlocks ==
    [ s \in HostSelectors |->
        IF s = "forward"
        THEN [type |-> "command", category |-> "motion", spec |-> "move %n steps",
              defaults |-> <<"10">>]
        ELSE [type |-> "command", category |-> "sensing", spec |-> "ask %s and wait",
              defaults |-> <<"what's your name?">>] ]

HostProto == [s \in HostSelectors |-> "host " \o s]

\* the Host's own block with the Host's hidden primitives applied
hostBlock(selector, hidden) == IF selector \in hidden THEN Null ELSE Block(selector)

\* target.prototype.blockTemplates of the Host, before patching
unpatchedBlockTemplates(target, category, hidden) ==
    IF category = "motion"
    THEN IF target = "StageMorph" THEN <<>>
         ELSE <<hostBlock("forward", hidden), Marker("-")>>
    ELSE IF category = "sensing"
    THEN <<hostBlock("doAsk", hidden), Marker("=")>>
    ELSE <<>>

\* original_initblocks: the Host sets SpriteMorph.prototype.blocks anew
original_initblocks(table) == HostBlocks

\* monkeyPatchBlocks(SpriteMorph) on the block table
RECURSIVE patchSpecs(_, _, _)
patchSpecs(specs, i, table) ==
    IF i > Len(specs) THEN table
    ELSE patchSpecs(specs, i + 1,
                    [s \in DOMAIN table \cup {specs[i].selector} |->
                        IF s = specs[i].selector THEN specs[i] ELSE table[s]])

RECURSIVE patchCategories(_, _)
patchCategories(categories, table) ==
    IF categories = {} THEN table
    ELSE LET category == CHOOSE c \in categories : TRUE
         IN  patchCategories(categories \ {category},
                             patchSpecs(blocks[category], 1, table))

monkeyPatchBlocks(table) == patchCategories(DOMAIN blocks, table)

\* a faulty variant of initBlocks: the Host's original runs after the patch
initBlocksPatchFirst(table) == original_initblocks(monkeyPatchBlocks(table))

\* the wrapped SpriteMorph.prototype.initBlocks
initBlocks(table) == monkeyPatchBlocks(original_initblocks(table))

InitBlocks ==
    /\ initCalls < MaxInitCalls
    /\ initCalls' = initCalls + 1
    /\ SpriteMorphBlocks' = initBlocks(SpriteMorphBlocks)
    /\ UNCHANGED <<tvars, lvars, hiddenPrimitives, SpriteMorphProto, StageMorphProto, templates>>

\* no palette has been built since the Host last flushed its palette cache
NoTemplates == [target |-> "none", category |-> "", native |-> <<>>, blocks |-> <<>>]

\* a call of the wrapped blockTemplates of target for category
BlockTemplates(target, category) ==
    /\ templates' =
         [ target   |-> target,
           category |-> category,
           native   |-> unpatchedBlockTemplates(target, category, hiddenPrimitives),
           blocks   |-> patchedBlockTemplates(category,
                            unpatchedBlockTemplates(target, category, hiddenPrimitives),
                            hiddenPrimitives) ]
    /\ UNCHANGED <<tvars, lvars, hiddenPrimitives, SpriteMorphBlocks, SpriteMorphProto,
                   StageMorphProto, initCalls>>

\* the Host hides or shows a primitive, and drops the palettes it had built
Selectors == HostSelectors \cup {implSelector(blockdefs[i].id) : i \in 1..Len(blockdefs)}

HidePrimitive(selector) ==
    /\ selector \notin hiddenPrimitives
    /\ hiddenPrimitives' = hiddenPrimitives \cup {selector}
    /\ templates' = NoTemplates
    /\ UNCHANGED <<tvars, lvars, SpriteMorphBlocks, SpriteMorphProto, StageMorphProto, initCalls>>

ShowPrimitive(selector) ==
    /\ selector \in hiddenPrimitives
    /\ hiddenPrimitives' = hiddenPrimitives \ {selector}
    /\ templates' = NoTemplates
    /\ UNCHANGED <<tvars, lvars, SpriteMorphBlocks, SpriteMorphProto, StageMorphProto, initCalls>>

InitRegistry ==
    /\ hiddenPrimitives = {}
    /\ SpriteMorphBlocks = HostBlocks   \* the Host ran its own initBlocks when it loaded
    /\ SpriteMorphProto = bindImpl(1, HostProto)
    /\ StageMorphProto = bindImpl(1, HostProto)
    /\ initCalls = 0
    /\ templates = NoTemplates

NextRegistry ==
    \/ InitBlocks
    \/ \E target \in Targets, category \in Categories : BlockTemplates(target, category)
    \/ \E selector \in Selectors : HidePrimitive(selector)
    \/ \E selector \in Selectors : ShowPrimitive(selector)

(***************************************************************************)
(* Label part factory                                                      *)
(***************************************************************************)
\* a value of a JavaScript property: a function, a string, or undefined
Function(name) == [type |-> "function", name |-> name]

String(value) == [type |-> "string", name |-> value]

NoValue == [type |-> "undefined", name |-> ""]

\* the own properties of var labelspecs (src/ide/ft-robo-snap.js)
labelspecs_ide ==
    [ t \in { "$ftrobo", "%ftroboInput", "%ftroboOutput", "%ftroboCounter",
              "%ftroboMotor", "%ftroboMotorList", "%ftroboMotorOrNone",
              "%ftroboOutputValue", "%ftroboMotorValue", "%ftroboSteps" } |->
        IF t = "$ftrobo" THEN Function("ftlogo")
        ELSE IF t = "%ftroboMotorList" THEN Function("MultiArgMorph %ftroboMotor")
        ELSE IF t = "%ftroboSteps" THEN Function("InputSlotMorph steps")
        ELSE Function("choice " \o t) ]

\* the own properties of var labelSpecs of the earlier revision of the file
labelSpecs_rev ==
    [ t \in { "$ftrobo", "%ftroboInput", "%ftroboOutput", "%ftroboCounter",
              "%ftroboMotor", "%ftroboMotorOrNone", "%ftroboOutputValue",
              "%ftroboMotorValue" } |->
        IF t = "$ftrobo" THEN String("$robot")
        ELSE Function("choice " \o t) ]

\* the properties an object literal inherits from Object.prototype
ObjectPrototype ==
    [ t \in {"constructor", "toString", "valueOf", "hasOwnProperty"} |->
        Function("Object.prototype." \o t) ]

\* FTRoboSnap.labelspecs[spec]: an own property, else an inherited one, else undefined
lookup(table, spec) ==
    IF spec \in DOMAIN table THEN table[spec]
    ELSE IF spec \in DOMAIN ObjectPrototype THEN ObjectPrototype[spec]
    ELSE NoValue

\* a faulty variant of ftlogo: the costume is never used
ftlogoTextOnly(costume) == "StringMorph ft"

\* function ftlogo()
ftlogo(costume) == IF costume # "undefined" THEN "SymbolMorph ft" ELSE "StringMorph ft"

\* the call spec_or_constructor(spec), without a receiver: what it returns, or "throw"
call(f, spec, costume) ==
    IF f.name = "ftlogo" THEN ftlogo(costume)
    ELSE IF f.name = "Object.prototype.constructor" THEN "String object " \o spec
    ELSE IF f.name = "Object.prototype.toString" THEN "[object Undefined]"
    ELSE IF f.name \in {"Object.prototype.valueOf", "Object.prototype.hasOwnProperty"}
    THEN "throw"     \* TypeError: the receiver is undefined
    ELSE "widget of " \o f.name

\* the wrapped SyntaxElementMorph.prototype.labelPart
patchedLabelPart(table, spec, costume) ==
    LET spec_or_constructor == lookup(table, spec)
    IN  IF spec_or_constructor.type = "function"
        THEN IF call(spec_or_constructor, spec, costume) = "throw"
             THEN [spec |-> spec, outcome |-> "throw", value |-> "TypeError"]
             ELSE [spec |-> spec, outcome |-> "return",
                   value |-> call(spec_or_constructor, spec, costume)]
        ELSE IF spec_or_constructor.type = "string"
        THEN [spec |-> spec, outcome |-> "unpatchedLabelPart",
              value |-> spec_or_constructor.name]
        ELSE [spec |-> spec, outcome |-> "unpatchedLabelPart", value |-> spec]

\* the tokens the Host is modelled to ask for
Tokens ==
    DOMAIN labelspecs_ide \cup
    { "%n", "set", "$robot", "%ftroboinput", "%ftrobo", "toString", "valueOf", "constructor" }

\* a call of the wrapped labelPart by the Host; imgAtCall is the image's load
\* state at the call
LabelPart(spec) ==
    /\ labelPart' = [ call      |-> patchedLabelPart(labelspecs, spec, ftlogo_costume),
                      imgAtCall |-> img ]
    /\ UNCHANGED <<tvars, bvars, labelspecs, ftlogo_costume, img>>

\* img.onload
imgOnload(costume) == "Costume ft"

ImgOnload ==
    /\ img = "loading"
    /\ img' = "loaded"
    /\ ftlogo_costume' = imgOnload(ftlogo_costume)
    /\ UNCHANGED <<tvars, bvars, labelspecs, labelPart>>

\* the image cannot be loaded: img.onload never runs
ImgError ==
    /\ img = "loading"
    /\ img' = "error"
    /\ UNCHANGED <<tvars, bvars, labelspecs, ftlogo_costume, labelPart>>

InitLabel ==
    /\ labelspecs \in {labelspecs_ide, labelSpecs_rev}
    /\ ftlogo_costume = "undefined"
    /\ img = IF labelspecs = labelspecs_ide THEN "loading" ELSE "none"
    /\ labelPart = [ call |-> [spec |-> "", outcome |-> "none", value |-> ""],
                     imgAtCall |-> img ]

NextLabel ==
    \/ \E spec \in Tokens : LabelPart(spec)
    \/ ImgOnload
    \/ ImgError

Init == InitTranslation /\ InitRegistry /\ InitLabel

SpecTranslation == Init /\ [][NextTranslation]_vars

SpecRegistry == Init /\ [][NextRegistry]_vars

SpecLabel == Init /\ [][NextLabel]_vars

(***************************************************************************)
(* Properties                                                              *)
(***************************************************************************)
\* the number of events of one kind in a request's log
Count(log, what) == Cardinality({i \in 1..Len(log) : log[i][1] = what})

\* the keys written by the events of log before position i
WrittenBefore(log, i) == {log[j][2] : j \in {n \in 1..(i - 1) : log[n][1] = "write"}}

\* C1: for every intercepted load request, no overlay entry is written before the
\* Host's base dictionary of the request's locale has been loaded, and the Host's
\* completion callback runs only after every overlay entry has been written; the
\* Host's dictionary of a locale stays untouched until a base load of it completes.
C1_OverlayAfterBaseBeforeCallback ==
    /\ \A r \in 1..Len(requests) :
         LET log == requests[r].log
         IN  \A i \in 1..Len(log) :
               /\ log[i][1] = "write" =>
                    \E j \in 1..(i - 1) : log[j][1] = "base"
               /\ log[i][1] = "notify" =>
                    /\ \E j \in 1..(i - 1) : log[j][1] = "base"
                    /\ WrittenBefore(log, i) = ObjectKeys(dict[requests[r].lang])
                    /\ \A j \in (i + 1)..Len(log) : log[j][1] # "write"
    /\ \A l \in Locales :
         (\A r \in 1..Len(requests) :
            requests[r].lang = l => Count(requests[r].log, "base") = 0)
         => SnapTranslatorDict[l] = Undefined

\* C1 witness: one request has had its base load, its overlay writes and its
\* callback while a second request is still loading its base file
C1_Witness ==
    \E r, q \in 1..Len(requests) :
        /\ Count(requests[r].log, "write") >= 1
        /\ Count(requests[r].log, "notify") = 1
        /\ requests[q].base = "loading"

\* C2: the Host's completion callback of a request is never invoked more than once,
\* and it has been invoked once when the request's base load completion was handled.
C2_CallbackExactlyOnce ==
    \A r \in 1..Len(requests) :
        /\ Count(requests[r].log, "notify") <= 1
        /\ requests[r].base = "handled" => Count(requests[r].log, "notify") = 1

\* C3: for a locale without an entry in FTRoboSnap.dict the completion handler raises
\* no error, writes nothing and invokes the Host's callback once.
C3_NoOverlayNoError ==
    \A r \in 1..Len(requests) :
        (requests[r].base = "handled" /\ ~dict[requests[r].lang].defined) =>
            /\ Count(requests[r].log, "throw") = 0
            /\ Count(requests[r].log, "write") = 0
            /\ Count(requests[r].log, "notify") = 1

\* C4: the handler step that applies the overlay of locale L leaves every overlay key
\* of L's dictionary at the overlay's value, whatever it held, and leaves every other
\* key of L and every other locale's dictionary as they were after the base load.
C4_OverlayWins ==
    [][ \A r \in 1..Len(requests) :
          ( /\ requests[r].base = "loaded"
            /\ requests'[r].base = "handled"
            /\ Count(requests'[r].log, "notify") > Count(requests[r].log, "notify") )
          => LET L == requests[r].lang
             IN  /\ \A k \in Keys :
                      SnapTranslatorDict'[L].entries[k] =
                          IF dict[L].entries[k] # Absent
                          THEN dict[L].entries[k]
                          ELSE SnapTranslatorDict[L].entries[k]
                 /\ \A l \in Locales \ {L} : SnapTranslatorDict'[l] = SnapTranslatorDict[l]
      ]_vars

\* C4 witness: the German overlay has been applied over a base dictionary: its key
\* holds the German string, a key it does not define holds the base value, and the
\* other locale's dictionary holds a base dictionary of its own
C4_Witness ==
    \E r \in 1..Len(requests) :
        /\ requests[r].lang = "de"
        /\ requests[r].base = "handled"
        /\ Count(requests[r].log, "notify") = 1
        /\ SnapTranslatorDict["de"].entries["$ftrobo switch %ftroboInput is on?"]
               = "Schalter %ftroboInput ist an?"
        /\ SnapTranslatorDict["de"].entries["0 (off)"] = "0 (base)"
        /\ SnapTranslatorDict["fr"].defined

\* the palette of a descriptor, and the descriptors of a palette in definition order
PaletteOf(d) == IF d.palette # "" THEN d.palette ELSE d.category

InPalette(P) == {i \in 1..Len(blockdefs) : PaletteOf(blockdefs[i]) = P}

RECURSIVE DescriptorsFrom(_, _)
DescriptorsFrom(i, P) ==
    IF i > Len(blockdefs) THEN <<>>
    ELSE IF i \in InPalette(P) THEN <<blockdefs[i]>> \o DescriptorsFrom(i + 1, P)
    ELSE DescriptorsFrom(i + 1, P)

DescriptorsOf(P) == DescriptorsFrom(1, P)

RECURSIVE ShownFrom(_, _)
ShownFrom(i, P) ==
    IF i > Len(blockdefs) THEN <<>>
    ELSE IF i \in InPalette(P) /\ ("ftrobo" \o blockdefs[i].id) \notin hiddenPrimitives
    THEN <<Block("ftrobo" \o blockdefs[i].id)>> \o ShownFrom(i + 1, P)
    ELSE ShownFrom(i + 1, P)

\* what the latest blockTemplates call appended after the Host's list and the separator
Contributed == SubSeq(templates.blocks, Len(templates.native) + 2, Len(templates.blocks))

\* C5 as stated: the contributed sequence is the blocks of the palette's descriptors
\* that are not hidden, in definition order, with no entry for a hidden descriptor.
C5_HiddenLeaveNoEntry ==
    (templates.target # "none" /\ DescriptorsOf(templates.category) # <<>>) =>
        Contributed = ShownFrom(1, templates.category)

\* C5 as amended: the contributed sequence has one entry per descriptor of the
\* palette, in definition order: the descriptor's block, or null when the Host marks
\* the descriptor's selector as a hidden primitive.
C5_HiddenAreNull ==
    (templates.target # "none" /\ DescriptorsOf(templates.category) # <<>>) =>
        LET ds == DescriptorsOf(templates.category)
        IN  /\ Len(Contributed) = Len(ds)
            /\ \A j \in 1..Len(ds) :
                 Contributed[j] =
                     IF ("ftrobo" \o ds[j].id) \in hiddenPrimitives
                     THEN Null
                     ELSE Block("ftrobo" \o ds[j].id)

\* C5 witness: the motion palette built while one of its three descriptors is hidden
C5_Witness ==
    /\ templates.target = "StageMorph"
    /\ templates.category = "motion"
    /\ "ftroboSetMotor" \in hiddenPrimitives
    /\ "ftroboSetOutput" \notin hiddenPrimitives
    /\ Len(templates.blocks) = 4

\* the selectors a descriptor is known by in the Host's tables
BoundOn(proto, d) == {s \in DOMAIN proto : proto[s] = d.impl}

RenderSelectors(d) ==
    UNION { { blocks[p][j].selector :
                j \in {n \in 1..Len(blocks[p]) : blocks[p][n].spec = "$ftrobo " \o d.spec} } :
            p \in DOMAIN blocks }

TableKeys(d) ==
    {k \in DOMAIN SpriteMorphBlocks : SpriteMorphBlocks[k].spec = "$ftrobo " \o d.spec}

\* C6: every descriptor is known by one selector, "ftrobo" + id, where its
\* implementation is bound on SpriteMorph and on StageMorph, in its render spec, in the
\* palette blocks and, once initBlocks ran, as its key of the block table; distinct
\* descriptors have distinct selectors.
C6_OneSelectorEverywhere ==
    /\ \A i \in 1..Len(blockdefs) :
         LET d == blockdefs[i]
             s == "ftrobo" \o d.id
         IN  /\ BoundOn(SpriteMorphProto, d) = {s}
             /\ BoundOn(StageMorphProto, d) = {s}
             /\ RenderSelectors(d) = {s}
             /\ initCalls >= 1 => TableKeys(d) = {s}
    /\ \A i, j \in 1..Len(blockdefs) :
         i # j => RenderSelectors(blockdefs[i]) \cap RenderSelectors(blockdefs[j]) = {}
    /\ \A j \in 1..Len(templates.blocks) :
         templates.blocks[j].kind = "block" =>
            /\ templates.blocks[j].selector \in DOMAIN SpriteMorphProto
            /\ templates.blocks[j].selector \in DOMAIN StageMorphProto

\* C6 witness: initBlocks has run and the sensing palette has been built with all of
\* its blocks shown
C6_Witness ==
    /\ initCalls >= 1
    /\ "ftroboCounterValue" \in DOMAIN SpriteMorphBlocks
    /\ templates.category = "sensing"
    /\ hiddenPrimitives = {}

\* C7: the wrapped labelPart never throws; a token configured with a factory yields the
\* factory's result, a token configured with an alias string the Host's resolver called
\* with the alias, and any other token the Host's resolver called with the token itself.
C7_ResolveTotalExactMatch ==
    labelPart.call.outcome # "none" =>
        LET t == labelPart.call.spec
        IN  /\ labelPart.call.outcome # "throw"
            /\ (t \in DOMAIN labelspecs /\ labelspecs[t].type = "function") =>
                  labelPart.call.outcome = "return"
            /\ (t \in DOMAIN labelspecs /\ labelspecs[t].type = "string") =>
                  /\ labelPart.call.outcome = "unpatchedLabelPart"
                  /\ labelPart.call.value = labelspecs[t].name
            /\ t \notin DOMAIN labelspecs =>
                  /\ labelPart.call.outcome = "unpatchedLabelPart"
                  /\ labelPart.call.value = t

\* C8: a further call of the wrapped initBlocks leaves the Host's block table as the
\* call before left it, with every contributed selector mapped to its render spec and
\* the Host's own entries in place.
C8_InitBlocksIdempotent ==
    [][ (initCalls >= 1 /\ initCalls' = initCalls + 1) =>
          /\ SpriteMorphBlocks' = SpriteMorphBlocks
          /\ \A i \in 1..Len(blockdefs) :
               /\ ("ftrobo" \o blockdefs[i].id) \in DOMAIN SpriteMorphBlocks'
               /\ SpriteMorphBlocks'["ftrobo" \o blockdefs[i].id].spec
                      = "$ftrobo " \o blockdefs[i].spec
          /\ \A s \in HostSelectors :
               s \in DOMAIN SpriteMorphBlocks' /\ SpriteMorphBlocks'[s] = HostBlocks[s]
      ]_vars

\* C8 witness: the wrapped initBlocks has run twice
C8_Witness ==
    /\ initCalls = 2
    /\ "ftroboSetOutput" \in DOMAIN SpriteMorphBlocks
    /\ "forward" \in DOMAIN SpriteMorphBlocks

\* C9: a call of the logo factory always returns: the text placeholder when the image
\* has not been loaded at the call, the image widget when it has; and a call that
\* follows one that returned the image widget returns the image widget.
C9_LogoPlaceholderThenImage ==
    [][ (labelspecs = labelspecs_ide /\ labelPart'.call.spec = "$ftrobo") =>
          /\ labelPart'.call.outcome = "return"
          /\ labelPart'.call.value =
                IF labelPart'.imgAtCall = "loaded" THEN "SymbolMorph ft" ELSE "StringMorph ft"
          /\ labelPart.call.value = "SymbolMorph ft" =>
                labelPart'.call.value = "SymbolMorph ft"
      ]_vars

\* C9 witness: the logo factory was called after the image's load event
C9_Witness ==
    /\ labelPart.call.spec = "$ftrobo"
    /\ labelPart.call.value = "SymbolMorph ft"
    /\ img = "loaded"

====
